---- MODULE Spec2Model ----
(***************************************************************************)
(* ProofForge: the evaluate -> hash -> anchor -> persist pipeline of       *)
(* main.py, with the collaborators it calls (validators.py, cache.py,      *)
(* github_client.py, evaluator.py, hedera_client.py, storage.py,           *)
(* ipfs_client.py).                                                        *)
(*                                                                         *)
(* Python values are modelled as follows.  A str is a TLA+ string; an      *)
(* Optional[x] is the empty sequence (None) or the one-element sequence    *)
(* <<x>>; a list is a sequence; a dict with fixed keys is a record.        *)
(***************************************************************************)
EXTENDS Integers, Sequences, FiniteSets, TLC

VARIABLES
    pc,        \* pc[r]: where request r stands in evaluate_repository
    rq,        \* rq[r]: the locals of evaluate_repository for request r
    sv,        \* sv[r]: the locals of save_evaluation / save_storage for r
    resp,      \* resp[r]: the HTTP response of request r
    file,      \* storage.json
    backup,    \* storage.json.backup
    lock,      \* _storage_lock: 0 when free, else the request holding it
    ledger,    \* the messages the ledger topic accepted, in order
    mirror,    \* the payloads the content-addressed store accepted
    cache,     \* github_cache.cache
    now,       \* the wall clock (time.time / datetime.now)
    faults,    \* I/O faults injected into save_storage so far
    cfg,       \* the deployment: what is configured in the process
    start,     \* history: the list storage.json held at the start
    committed, \* history: the list save_storage last wrote to the end
    facts,     \* scoring specification: the RepoInfo under evaluation
    out        \* scoring specification: what evaluate_repo_local returned

vars == <<pc, rq, sv, resp, file, backup, lock, ledger, mirror, cache, now,
          faults, cfg, start, committed, facts, out>>

\* Groups for the UNCHANGED clauses.
diskVars == <<file, backup, lock, faults, committed>>
worldVars == <<ledger, mirror, cache, now>>
fixedVars == <<cfg, start, facts, out>>

-----------------------------------------------------------------------------
(* Bounds of the model.                                                     *)

MaxReqs == 2      \* evaluate requests the service handles, one after another
MaxCallers == 2   \* threads that call save_evaluation at the same time
MaxFaults == 2    \* I/O faults injected into save_storage
MaxTicks == 1     \* times the clock jumps by a whole cache ttl

Reqs == 1..MaxReqs
Callers == 1..MaxCallers

-----------------------------------------------------------------------------
(* Python helpers.                                                          *)

None == <<>>
Some(x) == <<x>>

\* Python truthiness of an Optional[str] / Optional[int].
TruthyStr(o) == o # None /\ o[1] # ""
TruthyInt(o) == o # None /\ o[1] # 0

Char(s, i) == SubSeq(s, i, i)

\* `sub in s` on strings.
Contains(sub, s) ==
    \E i \in 1..(Len(s) - Len(sub) + 1) : SubSeq(s, i, i + Len(sub) - 1) = sub

\* s.startswith(p)
StartsWith(s, p) == Len(s) >= Len(p) /\ SubSeq(s, 1, Len(p)) = p

\* s.strip('/')
RECURSIVE LStrip(_, _)
LStrip(s, c) ==
    IF Len(s) > 0 /\ Char(s, 1) = c THEN LStrip(SubSeq(s, 2, Len(s)), c) ELSE s
RECURSIVE RStrip(_, _)
RStrip(s, c) ==
    IF Len(s) > 0 /\ Char(s, Len(s)) = c
    THEN RStrip(SubSeq(s, 1, Len(s) - 1), c) ELSE s
Strip(s, c) == RStrip(LStrip(s, c), c)

\* The index of the first c in s at or after i, or Len(s) + 1.
RECURSIVE Find(_, _, _)
Find(s, c, i) ==
    IF i > Len(s) THEN Len(s) + 1
    ELSE IF Char(s, i) = c THEN i ELSE Find(s, c, i + 1)

\* s.split(c): always at least one part, empty parts kept.
RECURSIVE Split(_, _)
Split(s, c) ==
    LET k == Find(s, c, 1) IN
    IF k > Len(s) THEN <<s>>
    ELSE <<SubSeq(s, 1, k - 1)>> \o Split(SubSeq(s, k + 1, Len(s)), c)

\* sum of a sequence of integers
RECURSIVE Sum(_)
Sum(s) == IF s = <<>> THEN 0 ELSE s[1] + Sum(Tail(s))

-----------------------------------------------------------------------------
(* models.py: RepoInfo                                                      *)

RepoInfo(stars, open_issues, has_tests, commit_count, description, language, size) ==
    [stars |-> stars, open_issues |-> open_issues, has_tests |-> has_tests,
     commit_count |-> commit_count, description |-> description,
     language |-> language, size |-> size]

-----------------------------------------------------------------------------
(* evaluator.py: evaluate_repo_local.  The result is [score, trace]; each   *)
(* rule is the pair [pts, lines] it adds to score and to trace.             *)

\* The stars rule with its thresholds exclusive.
StarsRuleExclusive(stars) ==
    IF stars > 1000 THEN [pts |-> 50, lines |-> <<"High stars (1000+): +50">>]
    ELSE IF stars > 100
    THEN [pts |-> 30, lines |-> <<"Good stars (" \o ToString(stars) \o "): +30">>]
    ELSE IF stars > 10
    THEN [pts |-> 15, lines |-> <<"Some stars (" \o ToString(stars) \o "): +15">>]
    ELSE [pts |-> 0, lines |-> <<"Low stars (" \o ToString(stars) \o "): +0">>]

StarsRule(stars) ==
    IF stars >= 1000 THEN [pts |-> 50, lines |-> <<"High stars (1000+): +50">>]
    ELSE IF stars >= 100
    THEN [pts |-> 30, lines |-> <<"Good stars (" \o ToString(stars) \o "): +30">>]
    ELSE IF stars >= 10
    THEN [pts |-> 15, lines |-> <<"Some stars (" \o ToString(stars) \o "): +15">>]
    ELSE [pts |-> 0, lines |-> <<"Low stars (" \o ToString(stars) \o "): +0">>]

\* The tests rule adding more to the score than its line says.
TestsRuleUnderstated(has_tests) ==
    IF has_tests THEN [pts |-> 30, lines |-> <<"Has tests: +25">>]
    ELSE [pts |-> 0, lines |-> <<"No tests found: +0">>]

TestsRule(has_tests) ==
    IF has_tests THEN [pts |-> 25, lines |-> <<"Has tests: +25">>]
    ELSE [pts |-> 0, lines |-> <<"No tests found: +0">>]

ActivityRule(commit_count) ==
    IF commit_count >= 100
    THEN [pts |-> 20,
          lines |-> <<"High activity (" \o ToString(commit_count) \o " commits): +20">>]
    ELSE IF commit_count >= 10
    THEN [pts |-> 10,
          lines |-> <<"Some activity (" \o ToString(commit_count) \o " commits): +10">>]
    ELSE [pts |-> 0,
          lines |-> <<"Low activity (" \o ToString(commit_count) \o " commits): +0">>]

IssuesRule(open_issues) ==
    IF open_issues = 0 THEN [pts |-> 15, lines |-> <<"No open issues: +15">>]
    ELSE IF open_issues <= 10
    THEN [pts |-> 5,
          lines |-> <<"Few open issues (" \o ToString(open_issues) \o "): +5">>]
    ELSE [pts |-> 0,
          lines |-> <<"Many open issues (" \o ToString(open_issues) \o "): +0">>]

\* `if repo_info.language:` has no else branch: nothing is appended otherwise.
LanguageRule(language) ==
    IF TruthyStr(language)
    THEN [pts |-> 5, lines |-> <<"Has language (" \o language[1] \o "): +5">>]
    ELSE [pts |-> 0, lines |-> <<>>]

\* `if repo_info.size:` and its inner if/elif have no else branch.
SizeRule(size) ==
    IF TruthyInt(size)
    THEN IF size[1] > 10000
         THEN [pts |-> 10,
               lines |-> <<"Large codebase (" \o ToString(size[1]) \o " KB): +10">>]
         ELSE IF size[1] > 1000
         THEN [pts |-> 5,
               lines |-> <<"Medium codebase (" \o ToString(size[1]) \o " KB): +5">>]
         ELSE [pts |-> 0, lines |-> <<>>]
    ELSE [pts |-> 0, lines |-> <<>>]

\* evaluate_repo_local with its trace list kept at module level, so that a
\* call goes on from the trace of the call before it.
evaluate_repo_local_shared(repo_info) ==
    LET rules == << StarsRule(repo_info.stars),
                    TestsRule(repo_info.has_tests),
                    ActivityRule(repo_info.commit_count),
                    IssuesRule(repo_info.open_issues),
                    LanguageRule(repo_info.language),
                    SizeRule(repo_info.size) >>
        kept  == IF out = <<>> THEN <<>> ELSE out[Len(out)].ret.trace
    IN [score |-> Sum([i \in 1..6 |-> rules[i].pts]),
        trace |-> kept \o rules[1].lines \o rules[2].lines \o rules[3].lines
                  \o rules[4].lines \o rules[5].lines \o rules[6].lines]

evaluate_repo_local(repo_info) ==
    LET rules == << StarsRule(repo_info.stars),
                    TestsRule(repo_info.has_tests),
                    ActivityRule(repo_info.commit_count),
                    IssuesRule(repo_info.open_issues),
                    LanguageRule(repo_info.language),
                    SizeRule(repo_info.size) >>
    IN [score |-> Sum([i \in 1..6 |-> rules[i].pts]),
        trace |-> rules[1].lines \o rules[2].lines \o rules[3].lines
                  \o rules[4].lines \o rules[5].lines \o rules[6].lines]

-----------------------------------------------------------------------------
(* urllib.parse.urlparse, as far as validators.py and cache.py use it:      *)
(* netloc is what stands between "://" and the next "/", path is what       *)
(* follows up to a "?" or "#".                                              *)

RECURSIVE FindSub(_, _, _)
FindSub(s, sub, i) ==
    IF i + Len(sub) - 1 > Len(s) THEN Len(s) + 1
    ELSE IF SubSeq(s, i, i + Len(sub) - 1) = sub THEN i
    ELSE FindSub(s, sub, i + 1)

urlparse(url) ==
    LET cut  == IF Find(url, "?", 1) < Find(url, "#", 1)
                THEN Find(url, "?", 1) ELSE Find(url, "#", 1)
        u    == SubSeq(url, 1, cut - 1)
        k    == FindSub(u, "://", 1)
        rest == IF k > Len(u) THEN u ELSE SubSeq(u, k + 3, Len(u))
        sl   == Find(rest, "/", 1)
    IN IF k > Len(u)
       THEN [netloc |-> "", path |-> u]
       ELSE [netloc |-> SubSeq(rest, 1, sl - 1), path |-> SubSeq(rest, sl, Len(rest))]

-----------------------------------------------------------------------------
(* validators.py                                                            *)

Alnum == {"a", "b", "c", "d", "e", "f", "g", "h", "i", "j", "k", "l", "m",
          "n", "o", "p", "q", "r", "s", "t", "u", "v", "w", "x", "y", "z",
          "A", "B", "C", "D", "E", "F", "G", "H", "I", "J", "K", "L", "M",
          "N", "O", "P", "Q", "R", "S", "T", "U", "V", "W", "X", "Y", "Z",
          "0", "1", "2", "3", "4", "5", "6", "7", "8", "9"}

\* re.match(r'^[a-zA-Z0-9]([<inner>]*[a-zA-Z0-9])?$', s), inner = Alnum + extra
MatchName(s, extra) ==
    /\ Len(s) >= 1
    /\ Char(s, 1) \in Alnum
    /\ Char(s, Len(s)) \in Alnum
    /\ \A i \in 2..(Len(s) - 1) : Char(s, i) \in Alnum \cup extra

MatchOwner(s) == MatchName(s, {"-"})
MatchRepo(s) == MatchName(s, {".", "_", "-"})

validate_github_url(url) ==
    LET parsed     == urlparse(url)
        path_parts == Split(Strip(parsed.path, "/"), "/")
    IN IF parsed.netloc \notin {"github.com", "www.github.com"} THEN FALSE
       ELSE IF Len(path_parts) < 2 THEN FALSE
       ELSE IF ~MatchOwner(path_parts[1]) THEN FALSE
       ELSE IF ~MatchRepo(path_parts[2]) THEN FALSE
       ELSE TRUE

validate_repo_name(owner, repo) ==
    IF ~MatchOwner(owner) THEN FALSE
    ELSE IF ~MatchRepo(repo) THEN FALSE
    ELSE TRUE

-----------------------------------------------------------------------------
(* Exceptions.  A raised exception is a record naming its class; a call     *)
(* that may raise returns [ok |-> TRUE, val |-> v] or [ok |-> FALSE,        *)
(* exc |-> e].                                                              *)

Return(v) == [ok |-> TRUE, val |-> v]
Raise(e) == [ok |-> FALSE, exc |-> e]

ValueError == [cls |-> "ValueError", status |-> 0]
HTTPException(status_code) == [cls |-> "HTTPException", status |-> status_code]

-----------------------------------------------------------------------------
(* cache.py                                                                 *)

TTL_SECONDS == 300

\* cached_parse_github_url (github_client.parse_github_url turns what it
\* raises into ValueError).
parse_github_url(url) ==
    LET parts == Split(Strip(urlparse(url).path, "/"), "/")
    IN IF Len(parts) >= 2 THEN Return(<<parts[1], parts[2]>>) ELSE Raise(ValueError)

\* hashlib.md5(...).hexdigest(): an injective tag of the text hashed
generate_cache_key(owner, repo) == "md5:" \o owner \o "/" \o repo

\* TTLCache.get: [val, cache]; an entry of age >= ttl is deleted and None is
\* returned.  The cache is the set of its entries [key, data, timestamp].
CacheHas(c, key) == \E e \in c : e.key = key
CacheEntry(c, key) == CHOOSE e \in c : e.key = key

\* TTLCache.get serving an entry whose age is exactly ttl.
TTLCache_get_inclusive(c, key, t) ==
    IF CacheHas(c, key)
    THEN IF t - CacheEntry(c, key).timestamp <= TTL_SECONDS
         THEN [val |-> Some(CacheEntry(c, key).data), cache |-> c]
         ELSE [val |-> None, cache |-> {e \in c : e.key # key}]
    ELSE [val |-> None, cache |-> c]

TTLCache_get(c, key, t) ==
    IF CacheHas(c, key)
    THEN IF t - CacheEntry(c, key).timestamp < TTL_SECONDS
         THEN [val |-> Some(CacheEntry(c, key).data), cache |-> c]
         ELSE [val |-> None, cache |-> {e \in c : e.key # key}]
    ELSE [val |-> None, cache |-> c]

TTLCache_set(c, key, data, t) ==
    {e \in c : e.key # key} \cup {[key |-> key, data |-> data, timestamp |-> t]}

-----------------------------------------------------------------------------
(* evaluator.py: the ASI-assisted path.                                     *)

\* get_quality_score
IndicatorPoints(indicator) ==
    IF Contains("comprehensive", indicator) \/ Contains("active", indicator)
       \/ Contains("high", indicator) \/ Contains("well-maintained", indicator)
    THEN 25
    ELSE IF Contains("moderate", indicator) \/ Contains("some", indicator)
            \/ Contains("recent", indicator)
    THEN 15
    ELSE 5

get_quality_score(indicators) ==
    LET score == Sum([i \in 1..Len(indicators) |-> IndicatorPoints(indicators[i])])
    IN IF score < 100 THEN score ELSE 100

\* The quality_indicators list evaluate_repo_with_asi builds.
AsiIndicators(repo_info) ==
    << IF repo_info.stars >= 1000 THEN "high community adoption"
       ELSE IF repo_info.stars >= 100 THEN "moderate community interest"
       ELSE "limited community engagement",
       IF repo_info.has_tests THEN "comprehensive test coverage"
       ELSE "no tests found",
       IF repo_info.commit_count >= 100 THEN "active maintenance"
       ELSE IF repo_info.commit_count >= 10 THEN "recent commits"
       ELSE "inactive repository",
       IF repo_info.open_issues = 0 THEN "well-maintained"
       ELSE IF repo_info.open_issues <= 10 THEN "some technical debt"
       ELSE "significant technical debt" >>

\* What becomes of the AI scorer in one call: it answers, its call raises
\* (generate_ai_repo_analysis, lines 275-276, returns a text then), or the
\* client cannot be built (initialize_asi_client raises).
AiOutcomes == {"ok", "call_error", "client_error"}

\* perform_comprehensive_repo_analysis catches every exception and returns a
\* text in each case.
perform_comprehensive_repo_analysis(repo_info, ai) ==
    IF ai = "ok" THEN "COMPREHENSIVE REPOSITORY ANALYSIS REPORT: analysis"
    ELSE IF ai = "call_error"
    THEN "COMPREHENSIVE REPOSITORY ANALYSIS REPORT: Unable to generate AI analysis"
    ELSE "Error during comprehensive analysis"

evaluate_repo_with_asi(repo_info, ai) ==
    LET analysis_report == perform_comprehensive_repo_analysis(repo_info, ai)
        score == get_quality_score(AsiIndicators(repo_info))
    IN [score |-> score,
        trace |-> << "Repository analysis completed: " \o ToString(score) \o "/100",
                     "Community engagement: " \o ToString(repo_info.stars) \o " stars",
                     "Development activity: " \o ToString(repo_info.commit_count)
                         \o " commits",
                     "Test coverage: "
                         \o (IF repo_info.has_tests THEN "Present" ELSE "Missing"),
                     "Issue management: " \o ToString(repo_info.open_issues)
                         \o " open issues" >>,
        analysis_report |-> analysis_report]

\* evaluate_repo: asi_key is whether ASI_API_KEY is set in the environment.
evaluate_repo(repo_info, use_asi, asi_key, ai) ==
    IF use_asi /\ asi_key
    THEN evaluate_repo_with_asi(repo_info, ai)
    ELSE evaluate_repo_local(repo_info)

-----------------------------------------------------------------------------
(* github_client.py: fetch_github_data.  An upstream answer is              *)
(* [kind, status, json, data]: kind "exc" is a requests exception, else     *)
(* status is the status of the metadata request, json whether its body is   *)
(* a JSON object, and data the repository as the upstream holds it.         *)

PER_PAGE == 100

Min(a, b) == IF a < b THEN a ELSE b

\* The RepoInfo built from the three responses (lines 36-61).  A body that
\* is not the repository object has none of the keys: the .get defaults
\* apply, and the commits and contents requests fail with it.
BuildRepoInfo(ans) ==
    IF ans.status = 200
    THEN RepoInfo(ans.data.stars, ans.data.open_issues, ans.data.has_tests,
                  Min(ans.data.commits, PER_PAGE), ans.data.description,
                  ans.data.language, ans.data.size)
    ELSE RepoInfo(0, 0, FALSE, 0, Some(""), Some(""), Some(0))

\* fetch_github_data answering an exception of the upstream with the facts
\* of an empty repository instead of raising.
fetch_github_data_swallow(owner, repo, c, t, ans) ==
    LET cache_key == generate_cache_key(owner, repo)
        got       == TTLCache_get(c, cache_key, t)
    IN IF got.val # None
       THEN [res |-> Return(got.val[1]), cache |-> got.cache]
       ELSE IF ans.kind = "exc"
       THEN [res |-> Return(RepoInfo(0, 0, FALSE, 0, Some(""), Some(""), Some(0))),
             cache |-> got.cache]
       ELSE IF ans.status = 404
       THEN [res |-> Raise(ValueError), cache |-> got.cache]
       ELSE IF ans.status = 403
       THEN [res |-> Raise(ValueError), cache |-> got.cache]
       ELSE IF ~ans.json
       THEN [res |-> Raise(ValueError), cache |-> got.cache]
       ELSE [res |-> Return(BuildRepoInfo(ans)),
             cache |-> TTLCache_set(got.cache, cache_key, BuildRepoInfo(ans), t)]

\* [res, cache]: res is Return(RepoInfo) or Raise(ValueError).
fetch_github_data(owner, repo, c, t, ans) ==
    LET cache_key == generate_cache_key(owner, repo)
        got       == TTLCache_get(c, cache_key, t)
    IN IF got.val # None
       THEN [res |-> Return(got.val[1]), cache |-> got.cache]
       ELSE IF ans.kind = "exc"
       THEN [res |-> Raise(ValueError), cache |-> got.cache]
       ELSE IF ans.status = 404
       THEN [res |-> Raise(ValueError), cache |-> got.cache]
       ELSE IF ans.status = 403
       THEN [res |-> Raise(ValueError), cache |-> got.cache]
       ELSE IF ~ans.json
       THEN [res |-> Raise(ValueError), cache |-> got.cache]
       ELSE [res |-> Return(BuildRepoInfo(ans)),
             cache |-> TTLCache_set(got.cache, cache_key, BuildRepoInfo(ans), t)]

-----------------------------------------------------------------------------
(* main.py: generate_trace_hash.                                            *)

\* json.dumps of a list of str: the items quoted, joined by ", ", in order.
RECURSIVE JoinQuoted(_)
JoinQuoted(xs) ==
    IF xs = <<>> THEN ""
    ELSE IF Len(xs) = 1 THEN "\"" \o xs[1] \o "\""
    ELSE "\"" \o xs[1] \o "\", " \o JoinQuoted(Tail(xs))

json_dumps_list(xs) == "[" \o JoinQuoted(xs) \o "]"

\* hashlib.sha256(...).hexdigest(): an injective tag of the text hashed
sha256_hexdigest(text) == "sha256:" \o text

generate_trace_hash(trace) == sha256_hexdigest(json_dumps_list(trace))

-----------------------------------------------------------------------------
(* datetime: a datetime object, its str() and its isoformat().              *)

Datetime(n) == "datetime(" \o ToString(n) \o ")"
DtDigits(d) == SubSeq(d, 10, Len(d) - 1)
DtStr(d) == "1970-01-01 00:00:" \o DtDigits(d)
DtIso(d) == "1970-01-01T00:00:" \o DtDigits(d)

-----------------------------------------------------------------------------
(* Python's hash() of a str is salted per process (PYTHONHASHSEED): a tag   *)
(* of the text and of the seed of the process.                              *)

PyHash(text, seed) == "h" \o ToString(seed) \o "(" \o text \o ")"

\* str() of the message dict main.py builds for the ledger
StrMessage(m) ==
    "{'repo': '" \o m.repo \o "', 'score': " \o ToString(m.score)
    \o ", 'trace_hash': '" \o m.trace_hash \o "', 'timestamp': '" \o m.timestamp
    \o "'}"

\* str() of EvaluationResult.dict()
StrResult(d) ==
    "{'repo': '" \o d.repo \o "', 'score': " \o ToString(d.score)
    \o ", 'trace': " \o json_dumps_list(d.trace)
    \o ", 'trace_hash': '" \o d.trace_hash \o "', 'hedera_tx': '" \o d.hedera_tx
    \o "', 'timestamp': " \o d.timestamp \o "}"

-----------------------------------------------------------------------------
(* hedera_client.py: submit_proof.  sdk: the hedera package imports;        *)
(* creds: HEDERA_OPERATOR_ID and HEDERA_OPERATOR_KEY are set; accepted: the *)
(* network executes the transaction.  [res, ledger].                        *)

Exception == [cls |-> "Exception", status |-> 0]

MockTx(message, seed) == "mock_tx_" \o PyHash(StrMessage(message), seed)

\* str(receipt.transactionId) of the n-th message the topic accepted
TransactionId(n) == "0.0.2@" \o ToString(n)

\* The body of the outer try block, lines 8-35.
SubmitProofBody(topic_id, message, sdk, creds, accepted, seed, log) ==
    IF ~sdk THEN [res |-> Return(MockTx(message, seed)), ledger |-> log]
    ELSE IF ~creds THEN [res |-> Return(MockTx(message, seed)), ledger |-> log]
    ELSE IF ~accepted THEN [res |-> Raise(Exception), ledger |-> log]
    ELSE [res |-> Return(TransactionId(Len(log) + 1)),
          ledger |-> Append(log, [topic |-> topic_id, message |-> message])]

\* submit_proof without the except clause of lines 37-40.
submit_proof_unguarded(topic_id, message, sdk, creds, accepted, seed, log) ==
    SubmitProofBody(topic_id, message, sdk, creds, accepted, seed, log)

\* submit_proof answering a failed submission with the id of an empty
\* transaction.
submit_proof_unmarked(topic_id, message, sdk, creds, accepted, seed, log) ==
    LET body == SubmitProofBody(topic_id, message, sdk, creds, accepted, seed, log)
    IN IF body.res.ok THEN body
       ELSE [res |-> Return(TransactionId(0)), ledger |-> body.ledger]

\* submit_proof executing the transaction a second time before it reads the
\* receipt.
submit_proof_resubmit(topic_id, message, sdk, creds, accepted, seed, log) ==
    LET body == SubmitProofBody(topic_id, message, sdk, creds, accepted, seed, log)
    IN IF body.res.ok
       THEN IF Len(body.ledger) > Len(log)
            THEN [res |-> body.res,
                  ledger |-> Append(body.ledger, [topic |-> topic_id, message |-> message])]
            ELSE body
       ELSE [res |-> Return(MockTx(message, seed)), ledger |-> body.ledger]

\* The outer try with its except clause, lines 37-40.
submit_proof(topic_id, message, sdk, creds, accepted, seed, log) ==
    LET body == SubmitProofBody(topic_id, message, sdk, creds, accepted, seed, log)
    IN IF body.res.ok THEN body
       ELSE [res |-> Return(MockTx(message, seed)), ledger |-> body.ledger]

-----------------------------------------------------------------------------
(* ipfs_client.py: upload_to_ipfs.  client: ipfshttpclient imports; node:   *)
(* the local node answers.  json.dumps has no default= here, so a datetime  *)
(* in the data raises TypeError.  [res, mirror].                            *)

IsDatetime(v) == StartsWith(v, "datetime(")

MockIpfs(data, seed) == "mock_ipfs_" \o PyHash(StrResult(data), seed)

\* The body of the outer try block, lines 8-26.
UploadBody(data, client, node, seed, store) ==
    IF ~client THEN [res |-> Return(Some(MockIpfs(data, seed))), mirror |-> store]
    ELSE IF ~node THEN [res |-> Raise(Exception), mirror |-> store]
    ELSE IF IsDatetime(data.timestamp) THEN [res |-> Raise(Exception), mirror |-> store]
    ELSE [res |-> Return(Some("Qm" \o StrResult(data))), mirror |-> store \cup {data}]

\* The outer try with its except clause, lines 28-31.
upload_to_ipfs(data, client, node, seed, store) ==
    LET body == UploadBody(data, client, node, seed, store)
    IN IF body.res.ok THEN body
       ELSE [res |-> Return(Some(MockIpfs(data, seed))), mirror |-> body.mirror]

-----------------------------------------------------------------------------
(* storage.py.  A file is [st, data]: absent, torn (opened for writing and  *)
(* not yet, or never, written to the end: json.load raises                  *)
(* JSONDecodeError) or ok with the list it holds.                           *)

Absent == [st |-> "absent", data |-> <<>>]
Torn == [st |-> "torn", data |-> <<>>]
Holding(list) == [st |-> "ok", data |-> list]

\* json.dump(..., default=str) followed by json.load: a datetime comes back
\* as its str().
JsonRecord(d) ==
    [d EXCEPT !.timestamp = IF IsDatetime(d.timestamp) THEN DtStr(d.timestamp)
                            ELSE d.timestamp]
JsonList(list) == [i \in 1..Len(list) |-> JsonRecord(list[i])]

\* os.path.exists
Exists(f) == f.st # "absent"

\* load_storage after its ensure_storage_exists: the except clause returns []
\* for a file that does not parse or is not there.
ReadStorage(f) == IF f.st = "ok" THEN f.data ELSE <<>>

get_all_evaluations(f) == ReadStorage(f)

\* get_evaluations_by_repo returning all that load_storage read.
get_evaluations_by_repo_unfiltered(f, owner, repo) == ReadStorage(f)

\* get_evaluations_by_repo: the records of load_storage whose "repo" is
\* owner/repo, in the order of the file.
get_evaluations_by_repo(f, owner, repo) ==
    LET repo_name == owner \o "/" \o repo
        Matches(eval_result) == eval_result.repo = repo_name
    IN SelectSeq(ReadStorage(f), Matches)

-----------------------------------------------------------------------------
(* The environment of the pipeline.                                         *)

\* Request bodies: repo_url values that pass pydantic's HttpUrl.
URLS == { "https://github.com/a/b",
          "https://www.github.com/a/b/",
          "https://github.com/c/d.e/tree/main",
          "https://gitlab.com/a/b",
          "https://github.com/a",
          "https://github.com/-a/b",
          "https://github.com/a/b_?tab=readme" }

\* What the upstream holds for a repository.
World(repo_name) ==
    IF repo_name = "a/b"
    THEN [stars |-> 1500, open_issues |-> 0, has_tests |-> TRUE, commits |-> 150,
          description |-> Some("x"), language |-> Some("Go"), size |-> Some(12000)]
    ELSE [stars |-> 5, open_issues |-> 20, has_tests |-> FALSE, commits |-> 2,
          description |-> None, language |-> None, size |-> Some(50)]

UpstreamAnswers(repo_name) ==
    { [kind |-> "exc", status |-> 0, json |-> FALSE, data |-> World(repo_name)] }
    \cup { [kind |-> "http", status |-> st, json |-> TRUE, data |-> World(repo_name)]
           : st \in {200, 404, 403, 500} }
    \cup { [kind |-> "http", status |-> 502, json |-> FALSE, data |-> World(repo_name)] }

\* Deployments: whether ASI_API_KEY is set when config.py is imported, and
\* the hash seed of the process.
Deployments ==
    { [asi_key |-> FALSE, seed |-> 1], [asi_key |-> TRUE, seed |-> 2] }

\* What submit_proof finds when it is called: the hedera package imports,
\* the operator credentials are set, the network executes the transaction.
LedgerStates ==
    { [sdk |-> FALSE, creds |-> FALSE, accepted |-> FALSE],
      [sdk |-> TRUE, creds |-> FALSE, accepted |-> FALSE],
      [sdk |-> TRUE, creds |-> TRUE, accepted |-> FALSE],
      [sdk |-> TRUE, creds |-> TRUE, accepted |-> TRUE] }

\* What upload_to_ipfs finds when it is called: ipfshttpclient imports, the
\* local node answers.
MirrorStates ==
    { [client |-> FALSE, node |-> FALSE], [client |-> TRUE, node |-> FALSE],
      [client |-> TRUE, node |-> TRUE] }

\* Config.HEDERA_TOPIC_ID
HEDERA_TOPIC_ID == "default_topic"

\* A record an earlier run left in storage.json.
OldRecord ==
    [repo |-> "a/b", score |-> 0, trace |-> <<"Low stars (0): +0">>,
     trace_hash |-> generate_trace_hash(<<"Low stars (0): +0">>),
     hedera_tx |-> "0.0.2@0", timestamp |-> "1970-01-01 00:00:0"]

-----------------------------------------------------------------------------
(* main.py: evaluate_repository, one action per stage; save_evaluation and  *)
(* save_storage one action per step another caller can interleave with.     *)
(* evaluate_repository is a coroutine that never suspends (evaluate_repo    *)
(* and what it awaits call blocking code only), so the event loop handles   *)
(* one request after another.                                               *)

BlankRq == [repo_url |-> "", owner |-> "", repo |-> "", repo_name |-> "",
            upstream |-> "", repo_info |-> None, score |-> 0, trace |-> <<>>,
            trace_hash |-> "", timestamp |-> "", hedera_tx |-> "",
            ipfs_hash |-> None]
BlankSv == [data |-> <<>>, ret |-> ""]
Pending == [status |-> 0, body |-> None]

\* EvaluationResult(...).dict() of main.py lines 91-98
EvaluationResult(q) ==
    [repo |-> q.repo_name, score |-> q.score, trace |-> q.trace,
     trace_hash |-> q.trace_hash, hedera_tx |-> q.hedera_tx,
     timestamp |-> q.timestamp]

\* The except clauses without the one for ValueError.
ExceptClausesNoValueError(exc) == HTTPException(500)

\* The except clauses of evaluate_repository (lines 118-123): ValueError
\* becomes 400, every other Exception - HTTPException is one - becomes 500.
ExceptClauses(exc) ==
    IF exc.cls = "ValueError" THEN HTTPException(400) ELSE HTTPException(500)

Fail(r, exc) ==
    /\ pc' = [pc EXCEPT ![r] = "failed"]
    /\ resp' = [resp EXCEPT ![r] = [status |-> ExceptClauses(exc).status,
                                    body |-> None]]

InitFiles == { <<Absent, Absent>>, <<Holding(<<OldRecord>>), Holding(<<>>)>> }

Init ==
    /\ pc = [r \in Reqs |-> "received"]
    /\ rq = [r \in Reqs |-> BlankRq]
    /\ sv = [r \in Reqs |-> BlankSv]
    /\ resp = [r \in Reqs |-> Pending]
    /\ \E f \in InitFiles : file = f[1] /\ backup = f[2]
    /\ lock = 0
    /\ ledger = <<>>
    /\ mirror = {}
    /\ cache = {}
    /\ now = 1
    /\ faults = 0
    /\ cfg \in Deployments
    /\ start = ReadStorage(file)
    /\ committed = ReadStorage(file)
    /\ facts = None
    /\ out = None

\* What lines 44-53 raise for a repo_url, or the (owner, repo) of line 49.
ValidateAndParse(url) ==
    LET parsed == parse_github_url(url) IN
    IF ~validate_github_url(url) THEN Raise(HTTPException(400))
    ELSE IF ~parsed.ok THEN parsed
    ELSE IF ~validate_repo_name(parsed.val[1], parsed.val[2])
    THEN Raise(HTTPException(400))
    ELSE parsed

\* lines 42-56; the request is taken up when the one before it is done
Validate(r) ==
    /\ pc[r] = "received"
    /\ \A q \in Reqs : q < r => pc[q] \in {"failed", "completed"}
    /\ \E url \in URLS :
         LET v == ValidateAndParse(url) IN
         IF v.ok
         THEN /\ rq' = [rq EXCEPT ![r].repo_url = url,
                                  ![r].owner = v.val[1],
                                  ![r].repo = v.val[2],
                                  ![r].repo_name = v.val[1] \o "/" \o v.val[2]]
              /\ pc' = [pc EXCEPT ![r] = "parsed"]
              /\ UNCHANGED resp
         ELSE /\ rq' = [rq EXCEPT ![r].repo_url = url]
              /\ Fail(r, v.exc)
    /\ UNCHANGED <<sv, diskVars, worldVars, fixedVars>>

\* How the answer of the upstream shows in the locals of fetch_github_data.
AnswerName(ans) ==
    IF ans.kind = "exc" THEN "exc"
    ELSE IF ~ans.json THEN "nojson"
    ELSE ToString(ans.status)

\* lines 58-61
Fetch(r) ==
    /\ pc[r] = "parsed"
    /\ \E ans \in UpstreamAnswers(rq[r].repo_name) :
         LET f   == fetch_github_data(rq[r].owner, rq[r].repo, cache, now, ans)
             hit == TTLCache_get(cache, generate_cache_key(rq[r].owner, rq[r].repo),
                                 now).val # None
             up  == IF hit THEN "cached" ELSE AnswerName(ans)
         IN
         /\ cache' = f.cache
         /\ IF f.res.ok
            THEN /\ rq' = [rq EXCEPT ![r].repo_info = Some(f.res.val),
                                     ![r].upstream = up]
                 /\ pc' = [pc EXCEPT ![r] = "fetched"]
                 /\ UNCHANGED resp
            ELSE /\ rq' = [rq EXCEPT ![r].upstream = up]
                 /\ Fail(r, f.res.exc)
    /\ UNCHANGED <<sv, diskVars, ledger, mirror, now, fixedVars>>

\* lines 63-69
Score(r) ==
    /\ pc[r] = "fetched"
    /\ \E ai \in AiOutcomes :
         LET use_asi    == cfg.asi_key
             evaluation == evaluate_repo(rq[r].repo_info[1], use_asi, cfg.asi_key, ai)
         IN rq' = [rq EXCEPT ![r].score = evaluation.score,
                             ![r].trace = evaluation.trace]
    /\ pc' = [pc EXCEPT ![r] = "scored"]
    /\ UNCHANGED <<sv, resp, diskVars, worldVars, fixedVars>>

\* The hash taken over the trace and the time of the call.
HashSalted(r) ==
    /\ pc[r] = "scored"
    /\ rq' = [rq EXCEPT ![r].trace_hash =
                 sha256_hexdigest(json_dumps_list(rq[r].trace) \o DtIso(Datetime(now)))]
    /\ pc' = [pc EXCEPT ![r] = "hashed"]
    /\ UNCHANGED <<sv, resp, diskVars, worldVars, fixedVars>>

\* lines 71-73
Hash(r) ==
    /\ pc[r] = "scored"
    /\ rq' = [rq EXCEPT ![r].trace_hash = generate_trace_hash(rq[r].trace)]
    /\ pc' = [pc EXCEPT ![r] = "hashed"]
    /\ UNCHANGED <<sv, resp, diskVars, worldVars, fixedVars>>

\* The message stamped with a second reading of the clock.
HederaMessageSecondClock(q, timestamp) ==
    [repo |-> q.repo_name, score |-> q.score, trace_hash |-> q.trace_hash,
     timestamp |-> DtIso(Datetime(now + 1))]

\* The dict of lines 80-85.
HederaMessage(q, timestamp) ==
    [repo |-> q.repo_name, score |-> q.score, trace_hash |-> q.trace_hash,
     timestamp |-> DtIso(timestamp)]

\* lines 75-88: datetime.now(), then submit_proof.  The clock moves on with
\* every reading.
Anchor(r) ==
    /\ pc[r] = "hashed"
    /\ \E env \in LedgerStates :
         LET timestamp == Datetime(now)
             s == submit_proof(HEDERA_TOPIC_ID, HederaMessage(rq[r], timestamp),
                               env.sdk, env.creds, env.accepted, cfg.seed, ledger)
         IN /\ ledger' = s.ledger
            /\ IF s.res.ok
               THEN /\ rq' = [rq EXCEPT ![r].timestamp = timestamp,
                                        ![r].hedera_tx = s.res.val]
                    /\ pc' = [pc EXCEPT ![r] = "anchored"]
                    /\ UNCHANGED resp
               ELSE /\ rq' = [rq EXCEPT ![r].timestamp = timestamp]
                    /\ Fail(r, s.res.exc)
    /\ now' = now + 1
    /\ UNCHANGED <<sv, diskVars, mirror, cache, fixedVars>>

-----------------------------------------------------------------------------
(* storage.py: save_evaluation and save_storage, step by step.              *)

\* An I/O operation of save_storage may raise while the budget lasts.
FaultChoices == IF faults < MaxFaults THEN {FALSE, TRUE} ELSE {FALSE}
Count(fault) == faults' = IF fault THEN faults + 1 ELSE faults

\* save_storage(data) is entered; ret is where its caller goes on.
CallSaveStorage(r, data, ret) ==
    /\ sv' = [sv EXCEPT ![r] = [data |-> data, ret |-> ret]]
    /\ pc' = [pc EXCEPT ![r] = "ss_lock"]

\* save_storage returns None, whatever happened in it.
ReturnFromSaveStorage(r) ==
    /\ pc' = [pc EXCEPT ![r] = sv[r].ret]
    /\ sv' = [sv EXCEPT ![r] = BlankSv]

\* An exception leaves the with block, which releases the lock, and enters
\* the except clause of line 38.
Raised(r) ==
    /\ lock' = 0
    /\ pc' = [pc EXCEPT ![r] = "ss_restore"]
    /\ UNCHANGED sv

\* save_evaluation line 51: ensure_storage_exists()
Ensure(r) ==
    /\ pc[r] = "anchored"
    /\ IF ~Exists(file)
       THEN CallSaveStorage(r, <<>>, "load")
       ELSE pc' = [pc EXCEPT ![r] = "load"] /\ UNCHANGED sv
    /\ UNCHANGED <<rq, resp, diskVars, worldVars, fixedVars>>

\* load_storage line 17: ensure_storage_exists()
LoadEnsure(r) ==
    /\ pc[r] = "load"
    /\ IF ~Exists(file)
       THEN CallSaveStorage(r, <<>>, "read")
       ELSE pc' = [pc EXCEPT ![r] = "read"] /\ UNCHANGED sv
    /\ UNCHANGED <<rq, resp, diskVars, worldVars, fixedVars>>

\* load_storage lines 19-23, then save_evaluation lines 53-54: the list read
\* is extended by the result and handed to save_storage.
LoadAppend(r) ==
    /\ pc[r] = "read"
    /\ CallSaveStorage(r, Append(ReadStorage(file), EvaluationResult(rq[r])), "stored")
    /\ UNCHANGED <<rq, resp, diskVars, worldVars, fixedVars>>

\* save_storage line 28: with _storage_lock
SsLock(r) ==
    /\ pc[r] = "ss_lock"
    /\ lock = 0
    /\ lock' = r
    /\ pc' = [pc EXCEPT ![r] = "ss_backup"]
    /\ UNCHANGED <<rq, sv, resp, file, backup, faults, committed, worldVars, fixedVars>>

\* lines 30-32: the backup is opened for writing, which truncates it
SsBackup(r) ==
    /\ pc[r] = "ss_backup"
    /\ IF ~Exists(file)
       THEN /\ pc' = [pc EXCEPT ![r] = "ss_open"]
            /\ UNCHANGED <<sv, backup, lock, faults>>
       ELSE \E fault \in FaultChoices :
              /\ Count(fault)
              /\ IF fault
                 THEN Raised(r) /\ UNCHANGED backup
                 ELSE /\ backup' = Torn
                      /\ pc' = [pc EXCEPT ![r] = "ss_copy"]
                      /\ UNCHANGED <<sv, lock>>
    /\ UNCHANGED <<rq, resp, file, committed, worldVars, fixedVars>>

\* line 33: dst.write(src.read())
SsCopy(r) ==
    /\ pc[r] = "ss_copy"
    /\ \E fault \in FaultChoices :
         /\ Count(fault)
         /\ IF fault
            THEN Raised(r) /\ UNCHANGED backup
            ELSE /\ backup' = file
                 /\ pc' = [pc EXCEPT ![r] = "ss_open"]
                 /\ UNCHANGED <<sv, lock>>
    /\ UNCHANGED <<rq, resp, file, committed, worldVars, fixedVars>>

\* line 36: the storage file is opened for writing, which truncates it
SsOpen(r) ==
    /\ pc[r] = "ss_open"
    /\ \E fault \in FaultChoices :
         /\ Count(fault)
         /\ IF fault
            THEN Raised(r) /\ UNCHANGED file
            ELSE /\ file' = Torn
                 /\ pc' = [pc EXCEPT ![r] = "ss_dump"]
                 /\ UNCHANGED <<sv, lock>>
    /\ UNCHANGED <<rq, resp, backup, committed, worldVars, fixedVars>>

\* line 37: json.dump; then the file is closed and the lock released
SsDump(r) ==
    /\ pc[r] = "ss_dump"
    /\ \E fault \in FaultChoices :
         /\ Count(fault)
         /\ IF fault
            THEN Raised(r) /\ UNCHANGED <<file, committed>>
            ELSE /\ file' = Holding(JsonList(sv[r].data))
                 /\ committed' = JsonList(sv[r].data)
                 /\ lock' = 0
                 /\ ReturnFromSaveStorage(r)
    /\ UNCHANGED <<rq, resp, backup, worldVars, fixedVars>>

\* lines 41-44: the except clause, outside the lock; restoring opens the
\* storage file for writing
SsRestore(r) ==
    /\ pc[r] = "ss_restore"
    /\ IF ~Exists(backup)
       THEN ReturnFromSaveStorage(r) /\ UNCHANGED <<file, faults>>
       ELSE \E fault \in FaultChoices :
              /\ Count(fault)
              /\ IF fault
                 THEN ReturnFromSaveStorage(r) /\ UNCHANGED file
                 ELSE /\ file' = Torn
                      /\ pc' = [pc EXCEPT ![r] = "ss_rcopy"]
                      /\ UNCHANGED sv
    /\ UNCHANGED <<rq, resp, backup, lock, committed, worldVars, fixedVars>>

\* lines 45-47: dst.write(src.read()); a failure is passed over
SsRestoreCopy(r) ==
    /\ pc[r] = "ss_rcopy"
    /\ \E fault \in FaultChoices :
         /\ Count(fault)
         /\ file' = IF fault THEN file ELSE backup
    /\ ReturnFromSaveStorage(r)
    /\ UNCHANGED <<rq, resp, backup, lock, committed, worldVars, fixedVars>>

-----------------------------------------------------------------------------
(* main.py lines 104-116: the mirror, then the response.                    *)

\* A handler that answers 500 when the mirror gave a synthetic content id.
MirrorStepAbort(result, up) ==
    IF up.res.ok /\ StartsWith(up.res.val[1], "mock_ipfs_")
    THEN [status |-> 500, body |-> None]
    ELSE [status |-> 200, body |-> Some(result)]

\* The response after the try block of lines 105-114: what upload_to_ipfs
\* raises is logged, result_dict is a local that is dropped, and `result`
\* is returned as it was.
MirrorStep(result, up) == [status |-> 200, body |-> Some(result)]

Mirror(r) ==
    /\ pc[r] = "stored"
    /\ \E env \in MirrorStates :
         LET result == EvaluationResult(rq[r])
             up     == upload_to_ipfs(result, env.client, env.node, cfg.seed, mirror)
         IN /\ mirror' = up.mirror
            /\ rq' = [rq EXCEPT ![r].ipfs_hash = IF up.res.ok THEN up.res.val ELSE None]
            /\ resp' = [resp EXCEPT ![r] = MirrorStep(result, up)]
    /\ pc' = [pc EXCEPT ![r] = "completed"]
    /\ UNCHANGED <<sv, diskVars, ledger, cache, now, fixedVars>>

\* Time passes: a whole ttl at once, so that what is cached expires.  Only
\* fetch_github_data reads the age of an entry, so the clock jumps when a
\* request is about to fetch.
Tick ==
    /\ cache # {}
    /\ \E r \in Reqs : pc[r] = "parsed"
    /\ now \div TTL_SECONDS < MaxTicks
    /\ now' = now + TTL_SECONDS
    /\ UNCHANGED <<pc, rq, sv, resp, diskVars, ledger, mirror, cache, fixedVars>>

Next ==
    \/ \E r \in Reqs : Validate(r)
    \/ \E r \in Reqs : Fetch(r)
    \/ \E r \in Reqs : Score(r)
    \/ \E r \in Reqs : Hash(r)
    \/ \E r \in Reqs : Anchor(r)
    \/ \E r \in Reqs : Ensure(r)
    \/ \E r \in Reqs : LoadEnsure(r)
    \/ \E r \in Reqs : LoadAppend(r)
    \/ \E r \in Reqs : SsLock(r)
    \/ \E r \in Reqs : SsBackup(r)
    \/ \E r \in Reqs : SsCopy(r)
    \/ \E r \in Reqs : SsOpen(r)
    \/ \E r \in Reqs : SsDump(r)
    \/ \E r \in Reqs : SsRestore(r)
    \/ \E r \in Reqs : SsRestoreCopy(r)
    \/ \E r \in Reqs : Mirror(r)
    \/ Tick

Spec == Init /\ [][Next]_vars

-----------------------------------------------------------------------------
(* Callers of save_evaluation that are threads of one process: each holds   *)
(* a finished result and runs save_evaluation, interleaved with the others  *)
(* step by step.                                                            *)

\* The locals of caller r when it calls save_evaluation: the result of a
\* local evaluation of what the upstream holds, with a synthetic receipt.
CallerRq(r) ==
    LET name == IF r % 2 = 1 THEN "a/b" ELSE "c/d.e"
        info == BuildRepoInfo([kind |-> "http", status |-> 200, json |-> TRUE,
                               data |-> World(name)])
        ev   == evaluate_repo_local(info)
        q    == [BlankRq EXCEPT !.repo_name = name, !.repo_info = Some(info),
                                !.score = ev.score, !.trace = ev.trace,
                                !.trace_hash = generate_trace_hash(ev.trace),
                                !.timestamp = Datetime(r)]
    IN [q EXCEPT !.hedera_tx = MockTx(HederaMessage(q, q.timestamp), 1)]

InitStore ==
    /\ pc = [r \in Callers |-> "anchored"]
    /\ rq = [r \in Callers |-> CallerRq(r)]
    /\ sv = [r \in Callers |-> BlankSv]
    /\ resp = [r \in Callers |-> Pending]
    /\ \E f \in InitFiles : file = f[1] /\ backup = f[2]
    /\ lock = 0
    /\ ledger = <<>>
    /\ mirror = {}
    /\ cache = {}
    /\ now = 1
    /\ faults = 0
    /\ cfg = [asi_key |-> FALSE, seed |-> 1]
    /\ start = ReadStorage(file)
    /\ committed = ReadStorage(file)
    /\ facts = None
    /\ out = None

NextStore ==
    \/ \E r \in Callers : Ensure(r)
    \/ \E r \in Callers : LoadEnsure(r)
    \/ \E r \in Callers : LoadAppend(r)
    \/ \E r \in Callers : SsLock(r)
    \/ \E r \in Callers : SsBackup(r)
    \/ \E r \in Callers : SsCopy(r)
    \/ \E r \in Callers : SsOpen(r)
    \/ \E r \in Callers : SsDump(r)
    \/ \E r \in Callers : SsRestore(r)
    \/ \E r \in Callers : SsRestoreCopy(r)

SpecStore == InitStore /\ [][NextStore]_vars

-----------------------------------------------------------------------------
(* The scoring engine on its own: evaluate_repo_local applied to a          *)
(* RepoInfo drawn from the values around every threshold of the rule table. *)

StarsValues == {0, 5, 9, 10, 11, 99, 100, 101, 999, 1000, 1001, 1500}
CommitValues == {0, 2, 9, 10, 11, 99, 100, 150}
IssueValues == {0, 1, 9, 10, 11, 20}
LanguageValues == {None, Some(""), Some("Go")}
SizeValues == {None, Some(0), Some(50), Some(1000), Some(1001), Some(10000),
               Some(10001), Some(12000)}

FactsValues ==
    { RepoInfo(st, oi, ht, cc, None, lang, sz) :
        st \in StarsValues, oi \in IssueValues, ht \in BOOLEAN,
        cc \in CommitValues, lang \in LanguageValues, sz \in SizeValues }

InitScore ==
    /\ pc = <<>>
    /\ rq = <<>>
    /\ sv = <<>>
    /\ resp = <<>>
    /\ file = Absent
    /\ backup = Absent
    /\ lock = 0
    /\ ledger = <<>>
    /\ mirror = {}
    /\ cache = {}
    /\ now = 1
    /\ faults = 0
    /\ cfg = [asi_key |-> FALSE, seed |-> 1]
    /\ start = <<>>
    /\ committed = <<>>
    /\ \E f \in FactsValues : facts = Some(f)
    /\ out = None

\* score, trace = evaluate_repo_local(repo_info)
ApplyLocal ==
    /\ out = None
    /\ out' = Some(evaluate_repo_local(facts[1]))
    /\ UNCHANGED <<pc, rq, sv, resp, diskVars, worldVars, cfg, start, facts>>

NextScore == ApplyLocal

SpecScore == InitScore /\ [][NextScore]_vars

-----------------------------------------------------------------------------
(* Properties.                                                              *)

Range(seq) == {seq[i] : i \in 1..Len(seq)}

\* The record of request r as storage.json holds it.
StoredRecord(r) == JsonRecord(EvaluationResult(rq[r]))

\* C1: when two callers run save_evaluation concurrently and no I/O fails,
\* then after both calls have returned get_all_evaluations holds both
\* appended records and every record that was stored before.
C1_ConcurrentAppendsSurvive ==
    ((\A r \in DOMAIN pc : pc[r] = "stored") /\ faults = 0)
    => /\ \A r \in DOMAIN pc : StoredRecord(r) \in Range(get_all_evaluations(file))
       /\ Range(start) \subseteq Range(get_all_evaluations(file))

\* C2: when save_storage returns after a failure, storage.json holds the
\* list that was committed last; and when it returns after a success, the
\* backup holds the list that was committed before the call.
C2_FailedSaveKeepsLastGood ==
    [][\A r \in DOMAIN pc :
         /\ (pc[r] \in {"ss_restore", "ss_rcopy"}
               /\ pc'[r] \notin {"ss_restore", "ss_rcopy"})
            => ReadStorage(file') = committed
         /\ (pc[r] = "ss_dump" /\ pc'[r] \notin {"ss_dump", "ss_restore"}
               /\ Exists(backup'))
            => ReadStorage(backup') = committed]_vars

\* C3: a request answered with success has its record in the store when the
\* answer is given (a failed append ends the request with a 5xx instead).
C3_SuccessMeansStored ==
    \A r \in DOMAIN pc :
        (resp[r].status = 200 /\ \A q \in DOMAIN pc : q > r => pc[q] = "received")
        => StoredRecord(r) \in Range(get_all_evaluations(file))

\* The message of request r is not on the ledger.
NotOnLedger(r) ==
    ~\E i \in 1..Len(ledger) :
        ledger[i].message = HederaMessage(rq[r], rq[r].timestamp)

C5_MirrorFailureIsInvisible ==
    [][\A r \in DOMAIN pc :
         (pc[r] = "stored" /\ pc'[r] # "stored")
         => /\ pc'[r] = "completed"
            /\ resp'[r] = [status |-> 200, body |-> Some(EvaluationResult(rq[r]))]
            /\ EvaluationResult(rq'[r]) = EvaluationResult(rq[r])
            /\ file' = file
            /\ backup' = backup]_vars

\* A request is completed with 200 after the mirror gave a synthetic id.
C5_Witness ==
    \E r \in DOMAIN pc :
        /\ pc[r] = "completed"
        /\ rq[r].ipfs_hash # None
        /\ StartsWith(rq[r].ipfs_hash[1], "mock_ipfs_")
        /\ resp[r] = [status |-> 200, body |-> Some(EvaluationResult(rq[r]))]

\* The URLs that validation or parsing refuse.
MalformedUrls == {url \in URLS : ~ValidateAndParse(url).ok}

\* The repo_url of request r was refused by validation or parsing.
Malformed(r) == rq[r].repo_url \in MalformedUrls

\* C6: a request whose repo_url fails validation or parsing is answered 400.
C6_MalformedUrlIs400 ==
    \A r \in DOMAIN pc : Malformed(r) => resp[r].status = 400

\* C7: a request for which the upstream answered 404 or 403 is aborted with
\* status 400.
C7_NotFoundOrForbiddenIs400 ==
    \A r \in DOMAIN pc :
        rq[r].upstream \in {"404", "403"}
        => /\ pc[r] = "failed"
           /\ resp[r] = [status |-> 400, body |-> None]

C7_Witness ==
    /\ \E r \in DOMAIN pc : rq[r].upstream = "404" /\ resp[r].status = 400
    /\ \E r \in DOMAIN pc : rq[r].upstream = "403" /\ resp[r].status = 400

\* Request r met a hard error in validation, parsing or fact fetching.
EarlyError(r) ==
    Malformed(r) \/ rq[r].upstream \in {"exc", "404", "403", "nojson"}

\* C8: a request that met a hard error in validation, parsing or fetching
\* is failed and stays so, has no timestamp, receipt or content id and never
\* entered save_storage; and no step of a request that is still before
\* scoring changes the ledger, the mirror, the storage file or its backup.
C8_EarlyFailureShortCircuits ==
    /\ [](\A r \in DOMAIN pc :
            EarlyError(r)
            => /\ pc[r] = "failed"
               /\ rq[r].score = BlankRq.score /\ rq[r].trace = BlankRq.trace
               /\ rq[r].timestamp = "" /\ rq[r].hedera_tx = ""
               /\ rq[r].ipfs_hash = None
               /\ sv[r] = BlankSv)
    /\ [][\A r \in DOMAIN pc :
            /\ (pc[r] \in {"received", "parsed"} /\ pc'[r] # pc[r])
               => UNCHANGED <<ledger, mirror, file, backup>>
            /\ pc[r] = "failed" => (pc'[r] = "failed" /\ rq'[r] = rq[r])]_vars

\* One request failed at fetching after another one was stored: the store
\* holds that one's record and nothing of the failed one.
C8_Witness ==
    \E r, q \in DOMAIN pc :
        /\ pc[q] = "completed"
        /\ pc[r] = "failed" /\ rq[r].upstream \in {"exc", "404", "403", "nojson"}
        /\ get_all_evaluations(file) # <<>>

\* The rule table of the scoring engine.
TableScore(f) ==
    (IF f.stars >= 1000 THEN 50 ELSE IF f.stars >= 100 THEN 30
     ELSE IF f.stars >= 10 THEN 15 ELSE 0)
    + (IF f.has_tests THEN 25 ELSE 0)
    + (IF f.commit_count >= 100 THEN 20 ELSE IF f.commit_count >= 10 THEN 10 ELSE 0)
    + (IF f.open_issues = 0 THEN 15 ELSE IF f.open_issues <= 10 THEN 5 ELSE 0)
    + (IF f.language # None /\ f.language[1] # "" THEN 5 ELSE 0)
    + (IF f.size = None THEN 0 ELSE IF f.size[1] > 10000 THEN 10
       ELSE IF f.size[1] > 1000 THEN 5 ELSE 0)

ScenarioA == RepoInfo(1500, 0, TRUE, 150, None, Some("Go"), Some(12000))
ScenarioB == RepoInfo(5, 20, FALSE, 2, None, None, Some(50))

\* C9: the score evaluate_repo_local returns is the sum of the rule table;
\* the facts of Scenario A score 125 and those of Scenario B score 0.
C9_ScoreIsTableSum ==
    out # None
    => /\ out[1].score = TableScore(facts[1])
       /\ facts[1] = ScenarioA => out[1].score = 125
       /\ facts[1] = ScenarioB => out[1].score = 0

\* Facts with stars, commits and issues on a threshold have been scored.
C9_Witness ==
    /\ out # None
    /\ facts[1].stars \in {10, 100, 1000}
    /\ facts[1].open_issues \in {0, 10}
    /\ facts[1].commit_count \in {10, 100}
    /\ out[1].score = TableScore(facts[1])

\* C10: the trace evaluate_repo_local returns has exactly six lines.
C10_TraceHasSixLines ==
    out # None => Len(out[1].trace) = 6

-----------------------------------------------------------------------------
(* The scoring functions called again and again in one process: out is the  *)
(* list of the calls made, each with its arguments and what it returned.    *)

MaxCalls == 3

EvalFacts ==
    { ScenarioA, ScenarioB,
      RepoInfo(100, 10, TRUE, 10, Some("x"), Some("Go"), Some(1001)),
      [ScenarioB EXCEPT !.commit_count = 50] }

\* The parts of the state the calls below leave alone.
PipelineIdle ==
    /\ pc = <<>> /\ rq = <<>> /\ sv = <<>> /\ resp = <<>>
    /\ file = Absent /\ backup = Absent /\ lock = 0 /\ faults = 0
    /\ start = <<>> /\ committed = <<>>
    /\ facts = None

InitEval ==
    /\ PipelineIdle
    /\ ledger = <<>> /\ mirror = {} /\ cache = {} /\ now = 1
    /\ cfg \in Deployments
    /\ out = <<>>

\* score, trace = evaluate_repo_local(repo_info)
CallLocal ==
    /\ Len(out) < MaxCalls
    /\ \E f \in EvalFacts :
         out' = Append(out, [fn |-> "evaluate_repo_local", facts |-> f, ai |-> "",
                             ret |-> evaluate_repo_local(f)])
    /\ UNCHANGED <<pc, rq, sv, resp, diskVars, worldVars, cfg, start, facts>>

\* evaluation = await evaluate_repo(repo_info, use_asi=bool(Config.ASI_API_KEY))
CallEvaluate ==
    /\ Len(out) < MaxCalls
    /\ \E f \in EvalFacts, ai \in AiOutcomes :
         out' = Append(out, [fn |-> "evaluate_repo", facts |-> f, ai |-> ai,
                             ret |-> evaluate_repo(f, cfg.asi_key, cfg.asi_key, ai)])
    /\ UNCHANGED <<pc, rq, sv, resp, diskVars, worldVars, cfg, start, facts>>

NextEval == CallLocal \/ CallEvaluate

SpecEval == InitEval /\ [][NextEval]_vars

\* C11: with AI-assisted scoring enabled, a call of evaluate_repo in which
\* the AI scorer errors or cannot be built returns the score and the trace
\* evaluate_repo_local returns for the same facts.
C11_AiFailureFallsBackToTable ==
    \A i \in 1..Len(out) :
        (out[i].fn = "evaluate_repo" /\ cfg.asi_key /\ out[i].ai # "ok")
        => /\ out[i].ret.score = evaluate_repo_local(out[i].facts).score
           /\ out[i].ret.trace = evaluate_repo_local(out[i].facts).trace

C13_StoredHashIsHashOfTrace ==
    LET stored == get_all_evaluations(file) IN
    /\ \A i \in 1..Len(stored) :
         stored[i].trace_hash = generate_trace_hash(stored[i].trace)
    /\ \A i, j \in 1..Len(stored) :
         stored[i].trace = stored[j].trace
         => stored[i].trace_hash = stored[j].trace_hash

\* Two requests left records with the same trace, taken at different times.
C13_Witness ==
    LET stored == get_all_evaluations(file) IN
    \E i, j \in 1..Len(stored) :
        /\ i < j
        /\ stored[i].trace = stored[j].trace
        /\ stored[i].timestamp # stored[j].timestamp
        /\ \A r \in DOMAIN pc : pc[r] = "completed"

-----------------------------------------------------------------------------
(* generate_trace_hash on its own: out is the list of the calls made, each  *)
(* with the trace it was given and the digest it returned.                  *)

MaxHashes == 2

HashTraces ==
    LET a  == "Has tests: +25"
        a2 == "Has  tests: +25"
        a3 == "Has tests: +25 "
        b  == "No open issues: +15"
    IN { <<>>, <<a>>, <<a2>>, <<a3>>, <<b>>, <<a, b>>, <<b, a>>, <<a2, b>>,
         <<b, a2>>, <<a, a>>, <<a, b, a>> }

InitHash ==
    /\ PipelineIdle
    /\ ledger = <<>> /\ mirror = {} /\ cache = {} /\ now = 1
    /\ cfg \in Deployments
    /\ out = <<>>

\* trace_hash = generate_trace_hash(trace)
CallHash ==
    /\ Len(out) < MaxHashes
    /\ \E trace \in HashTraces :
         out' = Append(out, [trace |-> trace, text |-> json_dumps_list(trace),
                             ret |-> generate_trace_hash(trace)])
    /\ UNCHANGED <<pc, rq, sv, resp, diskVars, worldVars, cfg, start, facts>>

NextHash == CallHash

SpecHash == InitHash /\ [][NextHash]_vars

\* A line with its runs of blanks made one blank and its ends stripped.
RECURSIVE Squeeze(_)
Squeeze(line) ==
    IF Len(line) < 2 THEN line
    ELSE IF Char(line, 1) = " " /\ Char(line, 2) = " "
    THEN Squeeze(SubSeq(line, 2, Len(line)))
    ELSE Char(line, 1) \o Squeeze(SubSeq(line, 2, Len(line)))

NormalLine(line) == Strip(Squeeze(line), " ")

NormalTrace(trace) == [i \in 1..Len(trace) |-> NormalLine(trace[i])]

\* The lines of a trace, each with the number of times it occurs.
LineCounts(trace) ==
    { <<trace[i], Cardinality({k \in 1..Len(trace) : trace[k] = trace[i]})>>
        : i \in 1..Len(trace) }

\* C14: two traces that differ only in the blanks inside their lines got
\* the same digest, and two traces with the same lines in another order
\* were serialized differently.
C14_HashIsCanonical ==
    \A i, j \in 1..Len(out) :
        /\ NormalTrace(out[i].trace) = NormalTrace(out[j].trace)
           => out[i].ret = out[j].ret
        /\ (LineCounts(out[i].trace) = LineCounts(out[j].trace)
              /\ out[i].trace # out[j].trace)
           => out[i].text # out[j].text

-----------------------------------------------------------------------------
(* submit_proof on its own, called from the processes of the deployment:    *)
(* out is the list of the calls made, each with the process (its hash       *)
(* seed), the message, what the ledger did, and the receipt returned.       *)

MaxSubmits == 2

\* s.replace(old, new) for a one-character old
RECURSIVE Replace(_, _, _)
Replace(s, old, new) ==
    IF s = "" THEN ""
    ELSE (IF Char(s, 1) = old THEN new ELSE Char(s, 1))
         \o Replace(SubSeq(s, 2, Len(s)), old, new)

get_hedera_explorer_url(transaction_id) ==
    IF StartsWith(transaction_id, "mock_tx_")
    THEN "https://hashscan.io/testnet (mock transaction)"
    ELSE "https://hashscan.io/testnet/transaction/" \o Replace(transaction_id, "-", "@")

SubmitMessages ==
    { [repo |-> "a/b", score |-> 125, trace_hash |-> "ab12", timestamp |-> DtIso(Datetime(1))],
      [repo |-> "a/b", score |-> 125, trace_hash |-> "ab12", timestamp |-> DtIso(Datetime(2))],
      [repo |-> "c/d.e", score |-> 0, trace_hash |-> "cd34", timestamp |-> DtIso(Datetime(1))] }

InitAnchor ==
    /\ PipelineIdle
    /\ ledger = <<>> /\ mirror = {} /\ cache = {} /\ now = 1
    /\ cfg \in Deployments
    /\ out = <<>>

\* tx_id = submit_proof(topic_id, message), in the process with hash seed
\* proc.seed
CallSubmit ==
    /\ Len(out) < MaxSubmits
    /\ \E proc \in Deployments, message \in SubmitMessages, env \in LedgerStates :
         LET s == submit_proof(HEDERA_TOPIC_ID, message, env.sdk, env.creds,
                               env.accepted, proc.seed, ledger)
         IN /\ ledger' = s.ledger
            /\ out' = Append(out, [seed |-> proc.seed, message |-> message, env |-> env,
                                   sent |-> Len(s.ledger) > Len(ledger),
                                   ret |-> IF s.res.ok THEN s.res.val ELSE "raised"])
    /\ UNCHANGED <<pc, rq, sv, resp, diskVars, mirror, cache, now, cfg, start, facts>>

NextAnchor == CallSubmit

SpecAnchor == InitAnchor /\ [][NextAnchor]_vars

C16_MockReceiptIsDeterministic ==
    \A i, j \in 1..Len(out) :
        (~out[i].sent /\ ~out[j].sent /\ out[i].message = out[j].message)
        => out[i].ret = out[j].ret

-----------------------------------------------------------------------------
(* github_cache on its own: set, get and the passing of time in any order.  *)
(* out is the list of the operations made: a set with its key, data and     *)
(* time, a get with its key, time and what it returned, a tick.             *)

MaxOps == 5

CacheKeys == {generate_cache_key("a", "b"), generate_cache_key("c", "d.e")}
CacheData == {ScenarioA, ScenarioB}

\* time.time() moves on by a second, or by a second less than the ttl
ClockSteps == {1, TTL_SECONDS - 1}

InitCache ==
    /\ PipelineIdle
    /\ ledger = <<>> /\ mirror = {} /\ cache = {} /\ now = 1
    /\ cfg = [asi_key |-> FALSE, seed |-> 1]
    /\ out = <<>>

\* github_cache.set(key, data)
CacheSet ==
    /\ Len(out) < MaxOps
    /\ \E key \in CacheKeys, data \in CacheData :
         /\ cache' = TTLCache_set(cache, key, data, now)
         /\ out' = Append(out, [op |-> "set", key |-> key, data |-> data, t |-> now,
                                ret |-> None])
    /\ UNCHANGED <<pc, rq, sv, resp, diskVars, ledger, mirror, now, cfg, start, facts>>

\* github_cache.get(key)
CacheGet ==
    /\ Len(out) < MaxOps
    /\ \E key \in CacheKeys :
         LET got == TTLCache_get(cache, key, now) IN
         /\ cache' = got.cache
         /\ out' = Append(out, [op |-> "get", key |-> key, data |-> None, t |-> now,
                                ret |-> got.val])
    /\ UNCHANGED <<pc, rq, sv, resp, diskVars, ledger, mirror, now, cfg, start, facts>>

CacheTick ==
    /\ Len(out) < MaxOps
    /\ \E d \in ClockSteps :
         /\ now' = now + d
         /\ out' = Append(out, [op |-> "tick", key |-> "", data |-> None, t |-> now + d,
                                ret |-> None])
    /\ UNCHANGED <<pc, rq, sv, resp, diskVars, ledger, mirror, cache, cfg, start, facts>>

NextCache == CacheSet \/ CacheGet \/ CacheTick

SpecCache == InitCache /\ [][NextCache]_vars

\* The sets of key made before operation i.
SetsBefore(i, key) == {j \in 1..(i - 1) : out[j].op = "set" /\ out[j].key = key}

\* The last of a non-empty set of indices.
Latest(js) == CHOOSE j \in js : \A k \in js : k <= j

\* C17: a get returned data exactly when the key was set before and its
\* most recent set is less than ttl seconds old, and then it returned the
\* data of that set; after a get that returned None the cache holds no entry
\* for the key.
C17_CacheServesOnlyFreshEntries ==
    /\ \A i \in 1..Len(out) :
         out[i].op = "get"
         => LET js == SetsBefore(i, out[i].key) IN
            IF js # {} /\ out[i].t - out[Latest(js)].t < TTL_SECONDS
            THEN out[i].ret = Some(out[Latest(js)].data)
            ELSE out[i].ret = None
    /\ (out # <<>> /\ out[Len(out)].op = "get" /\ out[Len(out)].ret = None)
       => ~CacheHas(cache, out[Len(out)].key)

\* A get a second before the ttl returned the data that was set, and a get
\* of the same key at the ttl returned None.
C17_Witness ==
    /\ Len(out) = 5
    /\ out[1].op = "set"
    /\ out[3].op = "get" /\ out[3].key = out[1].key
    /\ out[3].t - out[1].t = TTL_SECONDS - 1
    /\ out[3].ret = Some(out[1].data)
    /\ out[5].op = "get" /\ out[5].key = out[1].key
    /\ out[5].t - out[1].t = TTL_SECONDS
    /\ out[5].ret = None
    /\ ~CacheHas(cache, out[1].key)

\* What a lookup of owner/repo that the upstream answers with 200 returns.
SuccessfulLookup(owner, repo) ==
    BuildRepoInfo([kind |-> "http", status |-> 200, json |-> TRUE,
                   data |-> World(owner \o "/" \o repo)])

\* C18: a request whose metadata lookup was answered with anything but
\* success is failed, and every entry of the cache holds the facts of a
\* successful lookup of its repository.
C18_OnlySuccessfulLookupsCached ==
    /\ \A r \in DOMAIN pc :
         rq[r].upstream \notin {"", "cached", "200"} => pc[r] = "failed"
    /\ \A e \in cache :
         \E r \in DOMAIN pc :
            /\ e.key = generate_cache_key(rq[r].owner, rq[r].repo)
            /\ e.data = SuccessfulLookup(rq[r].owner, rq[r].repo)

\* C19: when a request has run save_evaluation without an I/O failure and
\* nothing was appended since, get_evaluations_by_repo for its repository
\* returns a record equal to the appended one in every field.
C19_StoredRecordRoundTrips ==
    \A r \in DOMAIN pc :
        (pc[r] \in {"stored", "completed"} /\ faults = 0
           /\ \A q \in DOMAIN pc : q > r => pc[q] = "received")
        => EvaluationResult(rq[r])
             \in Range(get_evaluations_by_repo(file, rq[r].owner, rq[r].repo))

\* The stage a request is in; the steps of save_evaluation lie between
\* Anchored and Stored, and the mirror step ends in Completed.
StageOf(p) ==
    CASE p = "received" -> 0
      [] p = "parsed"   -> 1
      [] p = "fetched"  -> 2
      [] p = "scored"   -> 3
      [] p = "hashed"   -> 4
      [] p \in {"anchored", "load", "read", "ss_lock", "ss_backup", "ss_copy",
                "ss_open", "ss_dump", "ss_restore", "ss_rcopy"} -> 5
      [] p = "stored"    -> 6
      [] p = "completed" -> 7
      [] OTHER -> 8

\* The receipt of request r is one the ledger gave.
RealReceipt(r) == rq[r].hedera_tx # "" /\ ~StartsWith(rq[r].hedera_tx, "mock_tx_")

\* The places of the message of request r on the ledger.
OnLedger(r) ==
    {i \in 1..Len(ledger) : ledger[i].message = HederaMessage(rq[r], rq[r].timestamp)}

-----------------------------------------------------------------------------
(* The store at rest.                                                        *)

\* A record with every field of EvaluationResult set.
FullyFormed(rec) ==
    /\ DOMAIN rec = {"repo", "score", "trace", "trace_hash", "hedera_tx", "timestamp"}
    /\ rec.repo # "" /\ rec.trace # <<>> /\ rec.trace_hash # ""
    /\ rec.hedera_tx # "" /\ rec.timestamp # ""
    /\ rec.score \in Nat

\* No request is inside save_storage.
AtRest == \A r \in DOMAIN pc : ~StartsWith(pc[r], "ss_")

\* C21: whenever no save_storage is in progress - also after one that failed
\* part-way and after its rollback - storage.json is either not there or a
\* complete list of fully-formed records; it never holds a cut-off list.
C21_StoreHoldsOnlyWholeRecords ==
    AtRest => /\ file.st # "torn"
              /\ \A rec \in Range(ReadStorage(file)) : FullyFormed(rec)

-----------------------------------------------------------------------------
(* A query beside a writer: thread 1 runs save_evaluation, thread 2 runs    *)
(* get_all_evaluations or get_evaluations_by_repo. Neither query takes      *)
(* _storage_lock; load_storage begins with ensure_storage_exists.           *)

InitRead ==
    /\ pc = [r \in Callers |-> IF r = 1 THEN "anchored" ELSE "query"]
    /\ rq = [r \in Callers |-> CallerRq(r)]
    /\ sv = [r \in Callers |-> BlankSv]
    /\ resp = [r \in Callers |-> Pending]
    /\ \E f \in InitFiles : file = f[1] /\ backup = f[2]
    /\ lock = 0
    /\ faults = 0
    /\ start = ReadStorage(file)
    /\ committed = ReadStorage(file)
    /\ ledger = <<>> /\ mirror = {} /\ cache = {} /\ now = 1
    /\ cfg = [asi_key |-> FALSE, seed |-> 1]
    /\ facts = None
    /\ out = None

\* load_storage line 17: ensure_storage_exists()
QueryEnsure(r) ==
    /\ pc[r] = "query"
    /\ IF ~Exists(file)
       THEN CallSaveStorage(r, <<>>, "q_read")
       ELSE pc' = [pc EXCEPT ![r] = "q_read"] /\ UNCHANGED sv
    /\ UNCHANGED <<rq, resp, diskVars, worldVars, fixedVars>>

\* load_storage lines 19-23 and the query's return value
QueryRead(r) ==
    /\ pc[r] = "q_read"
    /\ \E query \in {"get_all_evaluations", "get_evaluations_by_repo"} :
         out' = Some([query |-> query,
                      result |-> IF query = "get_all_evaluations"
                                 THEN get_all_evaluations(file)
                                 ELSE get_evaluations_by_repo(file, "a", "b")])
    /\ pc' = [pc EXCEPT ![r] = "q_done"]
    /\ UNCHANGED <<rq, sv, resp, diskVars, worldVars, cfg, start, facts>>

NextRead ==
    \/ NextStore
    \/ \E r \in Callers : QueryEnsure(r)
    \/ \E r \in Callers : QueryRead(r)

SpecRead == InitRead /\ [][NextRead]_vars

\* What a query returns on a store that holds list.
Answer(query, list) ==
    IF query = "get_all_evaluations" THEN list
    ELSE get_evaluations_by_repo(Holding(list), "a", "b")

\* C22: when no I/O fails, what a query returns beside a writer is its answer
\* on the list committed before the writer's append or on the list committed
\* by it, never the answer on an empty or cut-off file.
C22_ReaderSeesCommittedList ==
    (faults = 0 /\ out # None)
    => out[1].result \in {Answer(out[1].query, start), Answer(out[1].query, committed)}

\* seq a is the beginning of seq b
IsPrefix(a, b) == Len(a) <= Len(b) /\ SubSeq(b, 1, Len(a)) = a

\* C23: every list that save_evaluation commits begins with the list that
\* was committed before it - no stored record is changed or dropped - also
\* when storage.json did not parse when the append started.
C23_AppendOnly ==
    [][committed' # committed => IsPrefix(committed, committed')]_vars

-----------------------------------------------------------------------------
(* cache.py: TTLCache called from several threads. The class takes no lock; *)
(* a single dict operation is atomic, a method is not: another thread can   *)
(* run between any two lines of get.                                        *)

KeyError == [cls |-> "KeyError", status |-> 0]

\* An entry set at time 1 may already be in the cache.
InitThreads ==
    /\ pc = [t \in Callers |-> "idle"]
    /\ rq = [t \in Callers |-> [key |-> ""]]
    /\ resp = [t \in Callers |-> Pending]
    /\ cache \in {{}, TTLCache_set({}, generate_cache_key("a", "b"), ScenarioA, 1)}
    /\ now = 1
    /\ sv = <<>> /\ file = Absent /\ backup = Absent /\ lock = 0 /\ faults = 0
    /\ start = <<>> /\ committed = <<>> /\ facts = None /\ out = None
    /\ ledger = <<>> /\ mirror = {}
    /\ cfg = [asi_key |-> FALSE, seed |-> 1]

\* set(key, data), lines 26-29: one dict store
ThreadSet(t) ==
    /\ pc[t] = "idle"
    /\ \E key \in CacheKeys, data \in CacheData :
         /\ cache' = TTLCache_set(cache, key, data, now)
         /\ rq' = [rq EXCEPT ![t] = [key |-> key]]
    /\ pc' = [pc EXCEPT ![t] = "done"]
    /\ resp' = [resp EXCEPT ![t] = Return(None)]
    /\ UNCHANGED <<sv, diskVars, ledger, mirror, now, fixedVars>>

\* get(key) line 15: if key in self.cache
GetCheck(t) ==
    /\ pc[t] = "idle"
    /\ \E key \in CacheKeys :
         /\ rq' = [rq EXCEPT ![t] = [key |-> key]]
         /\ IF CacheHas(cache, key)
            THEN pc' = [pc EXCEPT ![t] = "g_read"] /\ UNCHANGED resp
            ELSE /\ pc' = [pc EXCEPT ![t] = "done"]
                 /\ resp' = [resp EXCEPT ![t] = Return(None)]
    /\ UNCHANGED <<sv, diskVars, worldVars, fixedVars>>

\* lines 16-18: entry = self.cache[key], then its age against the ttl
GetRead(t) ==
    /\ pc[t] = "g_read"
    /\ IF ~CacheHas(cache, rq[t].key)
       THEN /\ pc' = [pc EXCEPT ![t] = "done"]
            /\ resp' = [resp EXCEPT ![t] = Raise(KeyError)]
       ELSE IF now - CacheEntry(cache, rq[t].key).timestamp < TTL_SECONDS
            THEN /\ pc' = [pc EXCEPT ![t] = "done"]
                 /\ resp' = [resp EXCEPT ![t] =
                               Return(Some(CacheEntry(cache, rq[t].key).data))]
            ELSE pc' = [pc EXCEPT ![t] = "g_del"] /\ UNCHANGED resp
    /\ UNCHANGED <<rq, sv, diskVars, worldVars, fixedVars>>

\* lines 21-22: del self.cache[key]; return None
GetDel(t) ==
    /\ pc[t] = "g_del"
    /\ pc' = [pc EXCEPT ![t] = "done"]
    /\ IF ~CacheHas(cache, rq[t].key)
       THEN /\ resp' = [resp EXCEPT ![t] = Raise(KeyError)]
            /\ UNCHANGED cache
       ELSE /\ resp' = [resp EXCEPT ![t] = Return(None)]
            /\ cache' = {e \in cache : e.key # rq[t].key}
    /\ UNCHANGED <<rq, sv, diskVars, ledger, mirror, now, fixedVars>>

\* time.time() moves on by the ttl
ThreadTick ==
    /\ now \div TTL_SECONDS < MaxTicks
    /\ now' = now + TTL_SECONDS
    /\ UNCHANGED <<pc, rq, sv, resp, diskVars, ledger, mirror, cache, fixedVars>>

NextThreads ==
    \/ \E t \in Callers : ThreadSet(t)
    \/ \E t \in Callers : GetCheck(t)
    \/ \E t \in Callers : GetRead(t)
    \/ \E t \in Callers : GetDel(t)
    \/ ThreadTick

SpecThreads == InitThreads /\ [][NextThreads]_vars

\* No call of get or set has raised.
NoCallRaised == \A t \in DOMAIN resp : resp[t] = Pending \/ resp[t].ok

\* No step removes the key of an entry that is younger than the ttl.
NoFreshEntryRemoved ==
    \A e \in cache : now - e.timestamp < TTL_SECONDS => CacheHas(cache', e.key)

\* C24: however the gets and sets of concurrent threads interleave, no call
\* raises, a get that returns data returns data younger than the ttl, and no
\* get removes an entry that is younger than the ttl.
C24_ConcurrentGetSetIsSafe ==
    /\ []NoCallRaised
    /\ [][NoFreshEntryRemoved]_vars
    /\ [][\A t \in DOMAIN resp :
            (resp[t] = Pending /\ resp'[t] # Pending /\ resp'[t].ok /\ resp'[t].val # None)
            => \E e \in cache : /\ e.key = rq[t].key /\ Some(e.data) = resp'[t].val
                                /\ now - e.timestamp < TTL_SECONDS]_vars

-----------------------------------------------------------------------------
(* The outbound calls of one evaluate request, in the order in which        *)
(* evaluate_repository makes them.  pc[r] names the call the request is     *)
(* blocked in; out is the log of the calls made, each with the timeout it   *)
(* was given.                                                               *)

UpstreamCalls == {"get_repo", "get_commits", "get_contents"}
LedgerCalls == {"execute", "getReceipt"}
MirrorCalls == {"connect"}

\* The timeout argument of a call: the three session.get carry timeout=10;
\* execute(client), getReceipt(client) and ipfshttpclient.connect(addr) are
\* given none.
CallTimeout(call) == IF call \in UpstreamCalls THEN Some(10) ELSE None

\* upload_to_ipfs connects when ipfshttpclient imports; json.dumps of line 19
\* then raises on the datetime of the result, so add_str is not reached.
ToMirror(m) == IF m.client THEN "connect" ELSE "completed"

\* submit_proof submits when the SDK imports and the credentials are set;
\* save_evaluation follows it and calls nothing outside.
ToLedger(env, m) == IF env.sdk /\ env.creds THEN "execute" ELSE ToMirror(m)

\* Request r goes on to next; a call is logged when it is made.
Advance(r, next) ==
    /\ pc' = [pc EXCEPT ![r] = next]
    /\ out' = IF next \in UpstreamCalls \cup LedgerCalls \cup MirrorCalls
              THEN Append(out, [req |-> r, call |-> next, timeout |-> CallTimeout(next)])
              ELSE out
    /\ UNCHANGED <<rq, sv, resp, diskVars, worldVars, cfg, start, facts>>

InitCalls ==
    /\ pc = [r \in Reqs |-> "received"]
    /\ rq = <<>> /\ sv = <<>> /\ resp = <<>>
    /\ file = Absent /\ backup = Absent /\ lock = 0 /\ faults = 0
    /\ start = <<>> /\ committed = <<>> /\ facts = None
    /\ ledger = <<>> /\ mirror = {} /\ cache = {} /\ now = 1
    /\ cfg = [asi_key |-> FALSE, seed |-> 1]
    /\ out = <<>>

\* main.py lines 42-56 and the cache lookup of fetch_github_data
Receive(r) ==
    /\ pc[r] = "received"
    /\ \A q \in Reqs : q < r => pc[q] \in {"failed", "completed"}
    /\ \E url \in URLS, hit \in BOOLEAN, env \in LedgerStates, m \in MirrorStates :
         Advance(r, IF url \in MalformedUrls THEN "failed"
                    ELSE IF hit THEN ToLedger(env, m)
                    ELSE "get_repo")

\* A GET of fetch_github_data returns or raises (at the latest on its timeout)
UpstreamReturns(r) ==
    /\ pc[r] \in UpstreamCalls
    /\ \E ans \in {"200", "403", "404", "500", "exc"},
          env \in LedgerStates, m \in MirrorStates :
         Advance(r, IF ans = "exc" THEN "failed"
                    ELSE IF pc[r] = "get_repo"
                         THEN IF ans \in {"403", "404"} THEN "failed" ELSE "get_commits"
                    ELSE IF pc[r] = "get_commits" THEN "get_contents"
                    ELSE ToLedger(env, m))

\* execute or getReceipt returns or raises, if the ledger ever answers
LedgerReturns(r) ==
    /\ pc[r] \in LedgerCalls
    /\ \E raised \in BOOLEAN, m \in MirrorStates :
         Advance(r, IF pc[r] = "execute" /\ ~raised THEN "getReceipt" ELSE ToMirror(m))

\* connect returns or raises, if the node ever answers
MirrorReturns(r) ==
    /\ pc[r] \in MirrorCalls
    /\ Advance(r, "completed")

NextCalls ==
    \/ \E r \in Reqs : Receive(r)
    \/ \E r \in Reqs : UpstreamReturns(r)
    \/ \E r \in Reqs : LedgerReturns(r)
    \/ \E r \in Reqs : MirrorReturns(r)

\* The handler runs on when it can, and a call with a timeout returns.
SpecCalls ==
    /\ InitCalls /\ [][NextCalls]_vars
    /\ \A r \in Reqs : WF_vars(Receive(r)) /\ WF_vars(UpstreamReturns(r))

\* Every call made so far was given a timeout.
EveryCallHasTimeout == \A i \in 1..Len(out) : out[i].timeout # None

\* No request has made the same call twice.
NoCallRepeated ==
    \A i, j \in 1..Len(out) :
        (out[i].req = out[j].req /\ out[i].call = out[j].call) => i = j

\* C25: every evaluate request eventually reaches Completed or its first
\* hard failure whatever the services do: every outbound call it makes
\* carries a timeout, and none is made more than once per request.
C25_EveryRequestEnds ==
    /\ \A r \in Reqs : <>(pc[r] \in {"completed", "failed"})
    /\ []EveryCallHasTimeout
    /\ []NoCallRepeated

-----------------------------------------------------------------------------
(* hedera_client.py: create_consensus_topic, and main.py: POST              *)
(* /create_topic.  sdk: the hedera package imports; creds: the operator     *)
(* credentials are set; accepted: the network executes the transaction and  *)
(* gives a receipt.  topics is the list of topics the ledger holds.         *)

MaxTopics == 2

TopicMemos == {"ProofForge Evaluation Topic", "", "memo"}

\* str(receipt.topicId) of the n-th topic of the ledger
TopicId(n) == "0.0." \o ToString(n)

\* create_consensus_topic: [res, ledger]; res is the Optional[str] returned.
\* Whatever the body raises is caught and None is returned.
create_consensus_topic(memo, sdk, creds, accepted, topics) ==
    IF ~sdk THEN [res |-> None, ledger |-> topics]
    ELSE IF ~creds THEN [res |-> None, ledger |-> topics]
    ELSE IF ~accepted THEN [res |-> None, ledger |-> topics]
    ELSE [res |-> Some(TopicId(Len(topics) + 1)),
          ledger |-> Append(topics, [memo |-> memo])]

\* The handler answering with whatever create_consensus_topic returned.
create_hedera_topic_unchecked(topic_id) ==
    [status |-> 200, body |-> Some([topic_id |-> topic_id,
                                    message |-> "Topic created successfully"])]

\* create_hedera_topic after the call: the HTTPException raised in the else
\* branch is caught by `except Exception` and raised again as a 500.
create_hedera_topic(topic_id) ==
    IF TruthyStr(topic_id)
    THEN [status |-> 200, body |-> Some([topic_id |-> topic_id,
                                         message |-> "Topic created successfully"])]
    ELSE [status |-> HTTPException(500).status, body |-> None]

InitTopic ==
    /\ PipelineIdle
    /\ ledger = <<>> /\ mirror = {} /\ cache = {} /\ now = 1
    /\ cfg = [asi_key |-> FALSE, seed |-> 1]
    /\ out = <<>>

\* POST /create_topic with a memo
CallCreateTopic ==
    /\ Len(out) < MaxTopics
    /\ \E memo \in TopicMemos, env \in LedgerStates :
         LET c == create_consensus_topic(memo, env.sdk, env.creds, env.accepted, ledger)
         IN /\ ledger' = c.ledger
            /\ out' = Append(out, [memo |-> memo, env |-> env, before |-> ledger,
                                   after |-> c.ledger,
                                   resp |-> create_hedera_topic(c.res)])
    /\ UNCHANGED <<pc, rq, sv, resp, diskVars, mirror, cache, now, cfg, start, facts>>

NextTopic == CallCreateTopic

SpecTopic == InitTopic /\ [][NextTopic]_vars

\* C26: a create-topic call answers 200 only when the ledger created the
\* topic, and then with the id of the topic created by that call; when the
\* SDK or the credentials are missing or the creation raises it answers
\* with an error status and no body, never with an absent topic_id.
C26_TopicIdOnlyWhenCreated ==
    \A i \in 1..Len(out) :
        LET c == out[i] IN
        IF c.env.sdk /\ c.env.creds /\ c.env.accepted
        THEN /\ c.resp.status = 200
             /\ c.after = Append(c.before, [memo |-> c.memo])
             /\ c.resp.body[1].topic_id = Some(TopicId(Len(c.after)))
        ELSE /\ c.resp.status >= 400
             /\ c.resp.body = None
             /\ c.after = c.before

\* One call failed for missing credentials and the next created a topic.
C26_Witness ==
    /\ Len(out) = 2
    /\ out[1].env.sdk /\ ~out[1].env.creds /\ out[1].resp.status = 500
    /\ out[2].env.accepted /\ out[2].resp.status = 200
    /\ out[2].resp.body[1].topic_id = Some(TopicId(1))

-----------------------------------------------------------------------------
(* Queries on a store nobody writes to: storage.json is absent, does not    *)
(* parse, or holds any list of up to two records.                           *)

InitQuery ==
    /\ pc = [r \in Callers |-> "query"]
    /\ rq = [r \in Callers |-> BlankRq]
    /\ sv = [r \in Callers |-> BlankSv]
    /\ resp = [r \in Callers |-> Pending]
    /\ \E a, b \in {None, Some(OldRecord), Some(JsonRecord(EvaluationResult(CallerRq(1)))),
                    Some(JsonRecord(EvaluationResult(CallerRq(2))))} :
         file \in {Absent, Torn, Holding(a \o b)}
    /\ backup = Absent
    /\ lock = 0
    /\ faults = 0
    /\ start = ReadStorage(file)
    /\ committed = ReadStorage(file)
    /\ ledger = <<>> /\ mirror = {} /\ cache = {} /\ now = 1
    /\ cfg = [asi_key |-> FALSE, seed |-> 1]
    /\ facts = None
    /\ out = None

NextQuery ==
    \/ \E r \in Callers : QueryEnsure(r)
    \/ \E r \in Callers : QueryRead(r)
    \/ \E r \in Callers : SsLock(r)
    \/ \E r \in Callers : SsBackup(r)
    \/ \E r \in Callers : SsCopy(r)
    \/ \E r \in Callers : SsOpen(r)
    \/ \E r \in Callers : SsDump(r)
    \/ \E r \in Callers : SsRestore(r)
    \/ \E r \in Callers : SsRestoreCopy(r)

SpecQuery == InitQuery /\ [][NextQuery]_vars

\* The places of list that hold a record of repository name.
PlacesOf(list, name) == {i \in 1..Len(list) : list[i].repo = name}

\* C27: on any store contents get_evaluations_by_repo returns exactly the
\* stored records whose repo is "owner/repo", in their stored order, and
\* get_all_evaluations returns every stored record in stored order; the
\* queries leave the stored list as it was.
C27_QueriesFilterAndPreserve ==
    /\ ReadStorage(file) = start
    /\ out # None
       => LET res == out[1].result
              at == PlacesOf(start, "a/b")
          IN IF out[1].query = "get_all_evaluations"
             THEN res = start
             ELSE /\ Len(res) = Cardinality(at)
                  /\ \A i \in at : res[Cardinality({j \in at : j <= i})] = start[i]

\* get_evaluations_by_repo("a", "b") on a store that holds a record of c/d.e
\* before one of a/b returned the second record only.
C27_Witness ==
    /\ out # None
    /\ out[1].query = "get_evaluations_by_repo"
    /\ Len(start) = 2
    /\ start[1].repo = "c/d.e" /\ start[2].repo = "a/b"
    /\ out[1].result = <<start[2]>>

-----------------------------------------------------------------------------
(* The record and the message anchored for it.                              *)

\* The isoformat() of the instant that a stored timestamp - the str() of the
\* datetime - denotes: the two texts differ in the separator only.
IsoOfStored(text) == SubSeq(text, 1, 10) \o "T" \o SubSeq(text, 12, Len(text))

\* The message that carries the repo, score, trace_hash and timestamp of rec.
MessageOf(rec) ==
    [repo |-> rec.repo, score |-> rec.score, trace_hash |-> rec.trace_hash,
     timestamp |-> IsoOfStored(rec.timestamp)]

\* C28: every record that the pipeline stored agrees with the message
\* anchored for it: its hedera_tx is the receipt that the ledger gave for a
\* message with the record's repo, score, trace_hash and timestamp, or the
\* synthetic receipt that submit_proof made from that very message.
C28_RecordAgreesWithAnchor ==
    \A rec \in Range(ReadStorage(file)) \ Range(start) :
        \/ \E n \in 1..Len(ledger) :
             /\ ledger[n].message = MessageOf(rec)
             /\ rec.hedera_tx = TransactionId(n)
        \/ rec.hedera_tx = MockTx(MessageOf(rec), cfg.seed)

\* The store holds the records of two requests, the first anchored on the
\* ledger, the second with a synthetic receipt.
C28_Witness ==
    /\ pc[1] = "completed" /\ pc[2] = "stored"
    /\ RealReceipt(1) /\ ~RealReceipt(2)
    /\ {StoredRecord(1), StoredRecord(2)} \subseteq Range(ReadStorage(file))
    /\ ledger # <<>>

-----------------------------------------------------------------------------
(* The points that the lines of a trace show.                               *)

\* The number that a string of decimal digits writes.
ParseNat(s) ==
    LET Digit(c) == CHOOSE d \in 0..9 : ToString(d) = c
        RECURSIVE Value(_)
        Value(n) == IF n = 0 THEN 0 ELSE 10 * Value(n - 1) + Digit(SubSeq(s, n, n))
    IN Value(Len(s))

\* The N of the "+N" that ends a line.
PointsShown(line) ==
    LET plus == CHOOSE i \in 1..Len(line) :
                    /\ SubSeq(line, i, i) = "+"
                    /\ \A j \in (i + 1)..Len(line) : SubSeq(line, j, j) # "+"
    IN ParseNat(SubSeq(line, plus + 1, Len(line)))

\* C29: the score that evaluate_repo_local returns lies between 0 and 125
\* and is the sum of the points shown at the end of the lines of the trace
\* returned with it.
C29_ScoreIsSumOfShownPoints ==
    out # None
    => /\ out[1].score \in 0..125
       /\ out[1].score = Sum([i \in 1..Len(out[1].trace) |-> PointsShown(out[1].trace[i])])

\* A trace of six lines that show 50, 25, 20, 15, 5 and 10 points, with the
\* score 125.
C29_Witness ==
    /\ out # None
    /\ out[1].score = 125
    /\ [i \in 1..Len(out[1].trace) |-> PointsShown(out[1].trace[i])]
         = <<50, 25, 20, 15, 5, 10>>

-----------------------------------------------------------------------------
(* The AI-assisted score and the activity of the repository.                *)

\* Call i went the AI-assisted way.
AsiCall(i) == out[i].fn = "evaluate_repo" /\ cfg.asi_key

\* C30: on the AI-assisted path a repository with fewer than 10 commits
\* never scores higher than one with 10 or more commits and otherwise equal
\* facts, and every score lies between 20 and 100.
C30_AsiScoreMonotoneInActivity ==
    /\ \A i \in 1..Len(out) : AsiCall(i) => out[i].ret.score \in 20..100
    /\ \A i, j \in 1..Len(out) :
         (AsiCall(i) /\ AsiCall(j)
            /\ out[i].facts.commit_count < 10 /\ out[j].facts.commit_count >= 10
            /\ [out[i].facts EXCEPT !.commit_count = 0]
                 = [out[j].facts EXCEPT !.commit_count = 0])
         => out[i].ret.score <= out[j].ret.score

====
